---- MODULE Spec2Model ----
(***************************************************************************)
(* Model of pkg/config/config.go: the Config variants (SysctlConfig,       *)
(* IPRouteConfig, IPRuleConfig, IPTablesRuleConfig) and their Ensure       *)
(* methods, run against a model of the kernel route table, the kernel      *)
(* policy-rule table, one packet-filter chain and one kernel parameter.    *)
(*                                                                         *)
(* Every Ensure is one action.  The pluggable functions of a Config        *)
(* (RouteAdd, RuleDel, IPT.Delete, ...) are calls into the environment:    *)
(* each call either behaves as the kernel/tool does on the current table   *)
(* (the "faithful" outcome) or returns an injected error and changes       *)
(* nothing.  An Ensure operator returns the SET of its possible results,   *)
(* one per combination of outcomes of the calls it makes.                  *)
(***************************************************************************)
EXTENDS Integers, Sequences, FiniteSets, TLC

\* ---- bounds of the model ------------------------------------------------
MaxRules == 2      \* longest kernel policy-rule table in an initial state
MaxPrio == 2       \* rule priorities are 1..MaxPrio
MaxChainLen == 2   \* longest packet-filter chain in an initial state
MaxAddrs == 2      \* most addresses a node reports
MaxRefreshes == 2  \* successful refreshes are counted up to this

\* ---- Go error values ----------------------------------------------------
\* type: "nil" | "errno" (syscall.Errno) | "ipt" (*iptables.Error) |
\*       "other" (any other error type) | "panic" (the call did not return)
Nil == [type |-> "nil", errno |-> "", status |-> 0, nochain |-> FALSE]
Errno(c) == [type |-> "errno", errno |-> c, status |-> 0, nochain |-> FALSE]
\* nochain: the message contains "No chain/target/match"
IptError(s, m) == [type |-> "ipt", errno |-> "", status |-> s, nochain |-> m]
OtherError == [type |-> "other", errno |-> "", status |-> 0, nochain |-> FALSE]
Panic == [type |-> "panic", errno |-> "", status |-> 0, nochain |-> FALSE]

\* the errors a failing netlink call, iptables call, sysctl call may return
NetlinkErrors == {Errno("EEXIST"), Errno("EPERM"), OtherError}
IptErrors ==
  {IptError(1, FALSE), IptError(1, TRUE), IptError(2, FALSE), OtherError}
SysctlErrors == {Errno("EPERM"), OtherError}

\* os.IsExist: true of EEXIST, of none of the other errors above
IsExist(err) == err.type = "errno" /\ err.errno = "EEXIST"

\* ---- environment: outcomes of one call ----------------------------------
\* faithful: [st, err], what the kernel/tool does on state st0.
\* An injected error leaves the state as it was.
Outcomes(faithful, st0, errors) ==
  {[st |-> faithful.st, err |-> faithful.err, fault |-> FALSE]}
  \cup {[st |-> st0, err |-> e, fault |-> TRUE] : e \in errors}

Call(op, arg, res) == [op |-> op, arg |-> arg, res |-> res]

RemoveAt(s, i) == [j \in 1..(Len(s) - 1) |-> IF j < i THEN s[j] ELSE s[j + 1]]
SeqsUpTo(S, n) == UNION {[1..k -> S] : k \in 0..n}

\* ---- SysctlConfig -------------------------------------------------------
Value == "1"
DefaultValue == "0"
SysctlValues == {Value, DefaultValue, "2"}

\* sysctler: writes the value
SysctlFunc(cur, value) == [st |-> value, err |-> Nil]

SysctlConfig_Ensure_Swapped(cur, enabled) ==
  LET value == IF enabled THEN DefaultValue ELSE Value
  IN {[st |-> o.st, ret |-> o.err,
       calls |-> <<Call("Sysctl", value, o.err)>>, fault |-> o.fault]
      : o \in Outcomes(SysctlFunc(cur, value), cur, SysctlErrors)}
SysctlConfig_Ensure(cur, enabled) ==
  LET value == IF enabled THEN Value ELSE DefaultValue
  IN {[st |-> o.st, ret |-> o.err,
       calls |-> <<Call("Sysctl", value, o.err)>>, fault |-> o.fault]
      : o \in Outcomes(SysctlFunc(cur, value), cur, SysctlErrors)}

\* ---- IPRouteConfig ------------------------------------------------------
\* the kernel route table, reduced to "is the configured route in it"
RouteAdd(rt) ==
  IF rt THEN [st |-> rt, err |-> Errno("EEXIST")] ELSE [st |-> TRUE, err |-> Nil]
RouteDel(rt) ==
  IF rt THEN [st |-> FALSE, err |-> Nil] ELSE [st |-> rt, err |-> Errno("ESRCH")]

IPRouteConfig_Ensure(rt, enabled) ==
  IF enabled
  THEN {[st |-> o.st, ret |-> IF IsExist(o.err) THEN Nil ELSE o.err,
         calls |-> <<Call("RouteAdd", "", o.err)>>, fault |-> o.fault]
        : o \in Outcomes(RouteAdd(rt), rt, NetlinkErrors)}
  ELSE {[st |-> o.st,
         ret |-> IF o.err = Nil THEN Nil
                 ELSE IF o.err.type # "errno" THEN Panic   \* err.(syscall.Errno)
                 ELSE IF o.err.errno = "ESRCH" THEN Nil
                 ELSE o.err,
         calls |-> <<Call("RouteDel", "", o.err)>>, fault |-> o.fault]
        : o \in Outcomes(RouteDel(rt), rt, NetlinkErrors)}

\* ---- IPRuleConfig -------------------------------------------------------
\* A netlink.Rule is [key, prio]: key stands for every field but Priority.
RuleKeys == {"K", "X"}
Prios == 1..MaxPrio
KernelRules == [key : RuleKeys, prio : Prios]
\* the configured rule, r.Rule
Rule == [key |-> "K", prio |-> 1]

isRuleEqualWithoutPriority_WithPriority(rule1, rule2) == rule1 = rule2
isRuleEqualWithoutPriority(rule1, rule2) ==
  LET rule1Copy == [rule1 EXCEPT !.prio = 0]
      rule2Copy == [rule2 EXCEPT !.prio = 0]
  IN rule1Copy = rule2Copy

\* number of listed rules equal to r.Rule but for priority (the loop of count)
CountMatching(rules) ==
  Cardinality({i \in 1..Len(rules) : isRuleEqualWithoutPriority(rules[i], Rule)})

\* RTM_NEWRULE: EEXIST when the very same rule (priority included) is there
RuleAdd(tbl, rule) ==
  IF \E i \in 1..Len(tbl) : tbl[i] = rule
  THEN [st |-> tbl, err |-> Errno("EEXIST")]
  ELSE [st |-> Append(tbl, rule), err |-> Nil]

\* RTM_DELRULE with the rule's priority set: the kernel removes the first
\* rule equal in every field, priority included; ENOENT when there is none
RuleDel(tbl, rule) ==
  IF \E i \in 1..Len(tbl) : tbl[i] = rule
  THEN LET i == CHOOSE i \in 1..Len(tbl) :
                  tbl[i] = rule /\ \A j \in 1..(i - 1) : tbl[j] # rule
       IN [st |-> RemoveAt(tbl, i), err |-> Nil]
  ELSE [st |-> tbl, err |-> Errno("ENOENT")]

\* RuleList leaves the table alone
RuleList(tbl) == [st |-> tbl, err |-> Nil]

\* the loop of ensureHelper, from local counter ruleCount and last error err
RECURSIVE ensureLoop_StopAtFailure(_, _, _, _, _, _)
ensureLoop_StopAtFailure(tbl, ruleCount, ensureCount, err, calls, fault) ==
  IF ruleCount = ensureCount \/ err # Nil
  THEN {[st |-> tbl, ret |-> err, calls |-> calls, fault |-> fault]}
  ELSE IF ruleCount > ensureCount
  THEN UNION {ensureLoop_StopAtFailure(o.st, ruleCount - 1, ensureCount, o.err,
                         Append(calls, Call("RuleDel", "", o.err)),
                         fault \/ o.fault)
              : o \in Outcomes(RuleDel(tbl, Rule), tbl, NetlinkErrors)}
  ELSE UNION {ensureLoop_StopAtFailure(o.st, ruleCount + 1, ensureCount,
                         IF IsExist(o.err) THEN Nil ELSE o.err,
                         Append(calls, Call("RuleAdd", "", o.err)),
                         fault \/ o.fault)
              : o \in Outcomes(RuleAdd(tbl, Rule), tbl, NetlinkErrors)}
RECURSIVE ensureLoop(_, _, _, _, _, _)
ensureLoop(tbl, ruleCount, ensureCount, err, calls, fault) ==
  IF ruleCount = ensureCount
  THEN {[st |-> tbl, ret |-> err, calls |-> calls, fault |-> fault]}
  ELSE IF ruleCount > ensureCount
  THEN UNION {ensureLoop(o.st, ruleCount - 1, ensureCount, o.err,
                         Append(calls, Call("RuleDel", "", o.err)),
                         fault \/ o.fault)
              : o \in Outcomes(RuleDel(tbl, Rule), tbl, NetlinkErrors)}
  ELSE UNION {ensureLoop(o.st, ruleCount + 1, ensureCount,
                         IF IsExist(o.err) THEN Nil ELSE o.err,
                         Append(calls, Call("RuleAdd", "", o.err)),
                         fault \/ o.fault)
              : o \in Outcomes(RuleAdd(tbl, Rule), tbl, NetlinkErrors)}

\* count: (0, err) when RuleList fails
count(tbl) ==
  {[n |-> IF o.err = Nil THEN CountMatching(o.st) ELSE 0,
    err |-> o.err, fault |-> o.fault]
   : o \in Outcomes(RuleList(tbl), tbl, NetlinkErrors)}

ensureHelper_ListErrorIgnored(tbl, ensureCount) ==
  UNION {ensureLoop(tbl, c.n, ensureCount, Nil,
                    <<Call("RuleList", "", c.err)>>, c.fault)
         : c \in count(tbl)}
ensureHelper(tbl, ensureCount) ==
  UNION {IF c.err # Nil
         THEN {[st |-> tbl, ret |-> c.err,
                calls |-> <<Call("RuleList", "", c.err)>>, fault |-> c.fault]}
         ELSE ensureLoop(tbl, c.n, ensureCount, Nil,
                         <<Call("RuleList", "", c.err)>>, c.fault)
         : c \in count(tbl)}

IPRuleConfig_Ensure_TargetTwo(tbl, enabled) ==
  IF enabled THEN ensureHelper(tbl, 2) ELSE ensureHelper(tbl, 0)
IPRuleConfig_Ensure(tbl, enabled) ==
  IF enabled THEN ensureHelper(tbl, 1) ELSE ensureHelper(tbl, 0)

\* ---- IPTablesRuleConfig -------------------------------------------------
\* The chain named by r.Spec: [exists, rules], rules the chain's rule list.
\* "x" is a rule some other component put there.
RuleSpecs == <<"r1", "r2">>
ChainRules == {"r1", "r2", "x"}

\* iptables -N: exit status 1 when the chain is there already
NewChain(ch) ==
  IF ch.exists THEN [st |-> ch, err |-> IptError(1, FALSE)]
  ELSE [st |-> [exists |-> TRUE, rules |-> <<>>], err |-> Nil]

\* go-iptables ClearChain: flushes the chain, creating it when absent
ClearChain(ch) == [st |-> [exists |-> TRUE, rules |-> <<>>], err |-> Nil]

\* iptables -X: exit status 1 when the chain is absent or not empty
DeleteChain(ch) ==
  IF ~ch.exists THEN [st |-> ch, err |-> IptError(1, TRUE)]
  ELSE IF ch.rules # <<>> THEN [st |-> ch, err |-> IptError(1, FALSE)]
  ELSE [st |-> [exists |-> FALSE, rules |-> <<>>], err |-> Nil]

\* go-iptables AppendUnique: -C, then -A when the rule is not there
AppendUnique(ch, rs) ==
  IF ~ch.exists THEN [st |-> ch, err |-> IptError(1, TRUE)]
  ELSE IF \E i \in 1..Len(ch.rules) : ch.rules[i] = rs
  THEN [st |-> ch, err |-> Nil]
  ELSE [st |-> [ch EXCEPT !.rules = Append(@, rs)], err |-> Nil]

\* iptables -D: removes the first rule equal to the rule spec; when there is
\* none the tool reports the absence with the status line 239 takes as benign
Delete(ch, rs) ==
  IF ~ch.exists THEN [st |-> ch, err |-> IptError(1, TRUE)]
  ELSE IF \E i \in 1..Len(ch.rules) : ch.rules[i] = rs
  THEN LET i == CHOOSE i \in 1..Len(ch.rules) :
                  ch.rules[i] = rs /\ \A j \in 1..(i - 1) : ch.rules[j] # rs
       IN [st |-> [ch EXCEPT !.rules = RemoveAt(@, i)], err |-> Nil]
  ELSE [st |-> ch, err |-> IptError(2, FALSE)]

\* err.(*iptables.Error) succeeded and ExitStatus() is s
IsIptStatus(err, s) == err.type = "ipt" /\ err.status = s

\* lines 199-203: NewChain; exit status 1 (the chain exists) is no error.
\* ret # Nil means Ensure returns at line 226.
ensureChainEnabled_Status2(ch) ==
  {[st |-> o.st,
    ret |-> IF o.err # Nil /\ ~IsIptStatus(o.err, 2) THEN o.err ELSE Nil,
    calls |-> <<Call("NewChain", "", o.err)>>, fault |-> o.fault]
   : o \in Outcomes(NewChain(ch), ch, IptErrors)}
ensureChainEnabled(ch) ==
  {[st |-> o.st,
    ret |-> IF o.err # Nil /\ ~IsIptStatus(o.err, 1) THEN o.err ELSE Nil,
    calls |-> <<Call("NewChain", "", o.err)>>, fault |-> o.fault]
   : o \in Outcomes(NewChain(ch), ch, IptErrors)}

\* lines 206-216: ClearChain, then DeleteChain; exit status 1 of DeleteChain
\* (the chain is absent) is no error
ensureChainDisabled_ClearErrorIgnored(ch) ==
  UNION {{[st |-> d.st,
           ret |-> IF d.err # Nil /\ ~IsIptStatus(d.err, 1) THEN d.err ELSE Nil,
           calls |-> <<Call("ClearChain", "", o.err),
                       Call("DeleteChain", "", d.err)>>,
           fault |-> o.fault \/ d.fault]
          : d \in Outcomes(DeleteChain(o.st), o.st, IptErrors)}
         : o \in Outcomes(ClearChain(ch), ch, IptErrors)}
ensureChainDisabled(ch) ==
  UNION {IF o.err # Nil
         THEN {[st |-> o.st, ret |-> o.err,
                calls |-> <<Call("ClearChain", "", o.err)>>,
                fault |-> o.fault]}
         ELSE {[st |-> d.st,
                ret |-> IF d.err # Nil /\ ~IsIptStatus(d.err, 1)
                        THEN d.err ELSE Nil,
                calls |-> <<Call("ClearChain", "", o.err),
                            Call("DeleteChain", "", d.err)>>,
                fault |-> o.fault \/ d.fault]
               : d \in Outcomes(DeleteChain(o.st), o.st, IptErrors)}
         : o \in Outcomes(ClearChain(ch), ch, IptErrors)}

\* IPTablesChainSpec.ensure
IPTablesChainSpec_ensure_DefaultIgnored(ch, IsDefaultChain, enabled) ==
  IF enabled THEN ensureChainEnabled(ch) ELSE ensureChainDisabled(ch)
IPTablesChainSpec_ensure(ch, IsDefaultChain, enabled) ==
  IF enabled THEN ensureChainEnabled(ch)
  ELSE IF ~IsDefaultChain THEN ensureChainDisabled(ch)
  ELSE {[st |-> ch, ret |-> Nil, calls |-> <<>>, fault |-> FALSE]}

\* lines 229-235: AppendUnique of RuleSpecs[i..]
RECURSIVE appendLoop(_, _, _, _)
appendLoop(ch, i, calls, fault) ==
  IF i > Len(RuleSpecs)
  THEN {[st |-> ch, ret |-> Nil, calls |-> calls, fault |-> fault]}
  ELSE UNION {LET cs == Append(calls, Call("AppendUnique", RuleSpecs[i], o.err))
                  f == fault \/ o.fault
              IN IF o.err # Nil
                 THEN {[st |-> o.st, ret |-> o.err, calls |-> cs, fault |-> f]}
                 ELSE appendLoop(o.st, i + 1, cs, f)
              : o \in Outcomes(AppendUnique(ch, RuleSpecs[i]), ch, IptErrors)}

\* lines 238-243: what one Delete error does to the loop
\* "skip": the loop goes on; "return": Ensure returns err; "panic": eerr is
\* nil when the type assertion fails, and eerr.Error() dereferences it
deleteErr(err) ==
  IF err = Nil THEN "skip"
  ELSE IF IsIptStatus(err, 2) THEN "skip"
  ELSE IF err.type # "ipt" THEN "panic"
  ELSE IF ~err.nochain THEN "return"
  ELSE "skip"

\* lines 237-245: Delete of RuleSpecs[i..]
RECURSIVE deleteLoop(_, _, _, _)
deleteLoop(ch, i, calls, fault) ==
  IF i > Len(RuleSpecs)
  THEN {[st |-> ch, ret |-> Nil, calls |-> calls, fault |-> fault]}
  ELSE UNION {LET cs == Append(calls, Call("Delete", RuleSpecs[i], o.err))
                  f == fault \/ o.fault
                  d == deleteErr(o.err)
              IN IF d = "skip" THEN deleteLoop(o.st, i + 1, cs, f)
                 ELSE {[st |-> o.st,
                        ret |-> IF d = "panic" THEN Panic ELSE o.err,
                        calls |-> cs, fault |-> f]}
              : o \in Outcomes(Delete(ch, RuleSpecs[i]), ch, IptErrors)}

IPTablesRuleConfig_Ensure(ch, IsDefaultChain, enabled) ==
  UNION {IF c.ret # Nil THEN {c}
         ELSE IF enabled THEN appendLoop(c.st, 1, c.calls, c.fault)
         ELSE IF IsDefaultChain THEN deleteLoop(c.st, 1, c.calls, c.fault)
         ELSE {c}
         : c \in IPTablesChainSpec_ensure(ch, IsDefaultChain, enabled)}

\* ---- node-derived local-rule builder (fillLocalRulesFromNode) -----------
\* An IPv4 address is its four bytes, as in net.IP; a CIDR is [ip, bits].
IPv4(a, b, c, d) == <<a, b, c, d>>
HostMaskBits == 32
CIDR(ip, bits) == [ip |-> ip, bits |-> bits]
\* "" in the node object: the field is not set
NoCIDR == CIDR(IPv4(0, 0, 0, 0), 0)

\* the bits of a prefix of the given length that fall into byte i
MaskBitsIn(bits, i) ==
  IF bits >= 8 * i THEN 8
  ELSE IF bits <= 8 * (i - 1) THEN 0
  ELSE bits - 8 * (i - 1)

\* net.ParseCIDR: the network of the prefix, host bits cleared
ParseCIDR(c) ==
  CIDR([i \in 1..4 |-> c.ip[i] - (c.ip[i] % (2 ^ (8 - MaskBitsIn(c.bits, i))))],
       c.bits)

\* the next address, carrying from the last byte upwards, 32 bits wide
RECURSIVE NextIPFrom(_, _)
NextIPFrom(ip, i) ==
  IF i = 0 THEN ip
  ELSE IF ip[i] = 255 THEN NextIPFrom([ip EXCEPT ![i] = 0], i - 1)
  ELSE [ip EXCEPT ![i] = ip[i] + 1]
NextIP(ip) == NextIPFrom(ip, 4)

\* the nodes the builder is given
NodeCIDRs ==
  {[PodCIDR |-> NoCIDR, PodCIDRs |-> <<>>],
   [PodCIDR |-> CIDR(IPv4(10, 124, 0, 0), 16), PodCIDRs |-> <<>>],
   [PodCIDR |-> NoCIDR,
    PodCIDRs |-> <<CIDR(IPv4(10, 52, 1, 0), 24), CIDR(IPv4(10, 124, 0, 0), 16)>>],
   [PodCIDR |-> CIDR(IPv4(10, 52, 1, 77), 24),
    PodCIDRs |-> <<CIDR(IPv4(10, 124, 0, 0), 16)>>]}
NodeAddresses ==
  {[Type |-> "InternalIP", Address |-> IPv4(10, 128, 0, 24)],
   [Type |-> "InternalIP", Address |-> IPv4(172, 30, 0, 5)],
   [Type |-> "ExternalIP", Address |-> IPv4(10, 128, 0, 24)]}
Nodes ==
  {[PodCIDR |-> c.PodCIDR, PodCIDRs |-> c.PodCIDRs, Addresses |-> a]
   : c \in NodeCIDRs, a \in SeqsUpTo(NodeAddresses, MaxAddrs)}
NoNode == [PodCIDR |-> NoCIDR, PodCIDRs |-> <<>>, Addresses |-> <<>>]

FillError(msg) == [type |-> "other", errno |-> msg, status |-> 0, nochain |-> FALSE]

\* step 1: the pod CIDR, the singular field or else the first list entry
podCIDROf_SingularOnly(node) == node.PodCIDR
podCIDROf(node) ==
  IF node.PodCIDR # NoCIDR THEN node.PodCIDR
  ELSE IF node.PodCIDRs # <<>> THEN node.PodCIDRs[1]
  ELSE NoCIDR

\* step 2: the base address of the network plus one, as a host network
gatewayOf_FromAddress(cidr) == CIDR(NextIP(cidr.ip), HostMaskBits)
gatewayOf(cidr) == CIDR(NextIP(ParseCIDR(cidr).ip), HostMaskBits)

\* steps 3, 4: one IPRuleConfig per address of kind internal IP, in order;
\* a rule config is reduced to its Rule.Dst.IP
RECURSIVE localRulesOf_AnyType(_)
localRulesOf_AnyType(addrs) ==
  IF addrs = <<>> THEN <<>>
  ELSE <<[Dst |-> Head(addrs).Address]>> \o localRulesOf_AnyType(Tail(addrs))
RECURSIVE localRulesOf(_)
localRulesOf(addrs) ==
  IF addrs = <<>> THEN <<>>
  ELSE IF Head(addrs).Type = "InternalIP"
  THEN <<[Dst |-> Head(addrs).Address]>> \o localRulesOf(Tail(addrs))
  ELSE localRulesOf(Tail(addrs))

\* the whole builder on the published state old = [gw, cfgs]:
\* [err, gw, cfgs]; nothing is published when it fails
fillLocalRulesFromNode_Appending(old, node) ==
  IF podCIDROf(node) = NoCIDR
  THEN [err |-> FillError("missing pod CIDR"), gw |-> old.gw, cfgs |-> old.cfgs]
  ELSE IF localRulesOf(node.Addresses) = <<>>
  THEN [err |-> FillError("missing internal IP"), gw |-> old.gw, cfgs |-> old.cfgs]
  ELSE [err |-> Nil, gw |-> gatewayOf(podCIDROf(node)),
        cfgs |-> old.cfgs \o localRulesOf(node.Addresses)]
fillLocalRulesFromNode(old, node) ==
  IF podCIDROf(node) = NoCIDR
  THEN [err |-> FillError("missing pod CIDR"), gw |-> old.gw, cfgs |-> old.cfgs]
  ELSE IF localRulesOf(node.Addresses) = <<>>
  THEN [err |-> FillError("missing internal IP"), gw |-> old.gw, cfgs |-> old.cfgs]
  ELSE [err |-> Nil, gw |-> gatewayOf(podCIDROf(node)),
        cfgs |-> localRulesOf(node.Addresses)]

\* ---- state --------------------------------------------------------------
VARIABLES
  cfg,      \* the Config the caller holds: [kind, IsDefaultChain]
  sysctl,   \* kernel: value of the parameter Key
  route,    \* kernel: is r.Route in the route table
  rules,    \* kernel: the policy-rule table, as RuleList returns it
  chain,    \* filter engine: the chain r.Spec names, [exists, rules]
  enabled,  \* argument of the last Ensure: "none" | "true" | "false"
  repeated, \* the last Ensure had the argument of the Ensure before it
  ret,      \* what the last Ensure returned (Nil before the first)
  calls,    \* the environment calls the last Ensure made, in order
  node,     \* the node of the last fillLocalRulesFromNode (NoNode before)
  fillErr,  \* what the last fillLocalRulesFromNode returned
  vethGatewayDst,         \* process-wide: the veth gateway destination
  LocalTableRuleConfigs,  \* process-wide: the local-table rule configs
  refreshes \* successful fillLocalRulesFromNode calls, up to MaxRefreshes

kernelVars == <<sysctl, route, rules, chain>>
callVars == <<enabled, repeated, ret, calls>>
fillVars == <<node, fillErr, vethGatewayDst, LocalTableRuleConfigs, refreshes>>
vars == <<cfg, kernelVars, callVars, fillVars>>

Config(kind, d) == [kind |-> kind, IsDefaultChain |-> d]
Configs ==
  {Config("sysctl", FALSE), Config("route", FALSE), Config("rule", FALSE),
   Config("iptables", FALSE), Config("iptables", TRUE)}

\* a Set groups Configs; its members in declaration order
Set(configs) == [kind |-> "set", Configs |-> configs]
Sets ==
  {Set(<<Config("sysctl", FALSE), Config("route", FALSE), Config("rule", FALSE)>>),
   Set(<<Config("rule", FALSE), Config("sysctl", FALSE)>>)}

NoChain == [exists |-> FALSE, rules |-> <<>>]
Chains ==
  {NoChain} \cup [exists : {TRUE}, rules : SeqsUpTo(ChainRules, MaxChainLen)]

InitCalls ==
  /\ enabled = "none"
  /\ repeated = FALSE
  /\ ret = Nil
  /\ calls = <<>>

\* nothing is published before the first refresh
InitFillVars ==
  /\ node = NoNode
  /\ fillErr = Nil
  /\ vethGatewayDst = NoCIDR
  /\ LocalTableRuleConfigs = <<>>
  /\ refreshes = 0

\* The kernel starts in any state; the tables the held Config does not
\* touch start empty.  A system-default chain exists.
Init ==
  /\ cfg \in Configs
  /\ sysctl \in (IF cfg.kind = "sysctl" THEN SysctlValues ELSE {DefaultValue})
  /\ route \in (IF cfg.kind = "route" THEN BOOLEAN ELSE {FALSE})
  /\ rules \in (IF cfg.kind = "rule" THEN SeqsUpTo(KernelRules, MaxRules)
                ELSE {<<>>})
  /\ chain \in (IF cfg.kind = "iptables"
                THEN {c \in Chains : cfg.IsDefaultChain => c.exists}
                ELSE {NoChain})
  /\ InitCalls
  /\ InitFillVars

\* the results an environment may produce: all of them, or the faithful ones
Allowed(results, faithful) ==
  IF faithful THEN {r \in results : ~r.fault} ELSE results

Flag(e) == IF e THEN "true" ELSE "false"

\* a panic ends the process
Running == ret # Panic

EnsureSysctl(faithful) ==
  /\ Running /\ cfg.kind = "sysctl"
  /\ \E e \in BOOLEAN : \E r \in Allowed(SysctlConfig_Ensure(sysctl, e), faithful) :
       /\ sysctl' = r.st /\ ret' = r.ret /\ calls' = r.calls
       /\ enabled' = Flag(e) /\ repeated' = (enabled = Flag(e))
  /\ UNCHANGED <<cfg, route, rules, chain, fillVars>>

EnsureIPRoute(faithful) ==
  /\ Running /\ cfg.kind = "route"
  /\ \E e \in BOOLEAN : \E r \in Allowed(IPRouteConfig_Ensure(route, e), faithful) :
       /\ route' = r.st /\ ret' = r.ret /\ calls' = r.calls
       /\ enabled' = Flag(e) /\ repeated' = (enabled = Flag(e))
  /\ UNCHANGED <<cfg, sysctl, rules, chain, fillVars>>

EnsureIPRule(faithful) ==
  /\ Running /\ cfg.kind = "rule"
  /\ \E e \in BOOLEAN : \E r \in Allowed(IPRuleConfig_Ensure(rules, e), faithful) :
       /\ rules' = r.st /\ ret' = r.ret /\ calls' = r.calls
       /\ enabled' = Flag(e) /\ repeated' = (enabled = Flag(e))
  /\ UNCHANGED <<cfg, sysctl, route, chain, fillVars>>

EnsureIPTablesRule(faithful) ==
  /\ Running /\ cfg.kind = "iptables"
  /\ \E e \in BOOLEAN :
       \E r \in Allowed(IPTablesRuleConfig_Ensure(chain, cfg.IsDefaultChain, e),
                        faithful) :
         /\ chain' = r.st /\ ret' = r.ret /\ calls' = r.calls
         /\ enabled' = Flag(e) /\ repeated' = (enabled = Flag(e))
  /\ UNCHANGED <<cfg, sysctl, route, rules, fillVars>>

\* Ensure of one member on the kernel k = [sysctl, route, rules, chain]
Config_Ensure(c, k, e) ==
  CASE c.kind = "sysctl" ->
         {[st |-> [k EXCEPT !.sysctl = r.st], ret |-> r.ret, fault |-> r.fault]
          : r \in SysctlConfig_Ensure(k.sysctl, e)}
    [] c.kind = "route" ->
         {[st |-> [k EXCEPT !.route = r.st], ret |-> r.ret, fault |-> r.fault]
          : r \in IPRouteConfig_Ensure(k.route, e)}
    [] c.kind = "rule" ->
         {[st |-> [k EXCEPT !.rules = r.st], ret |-> r.ret, fault |-> r.fault]
          : r \in IPRuleConfig_Ensure(k.rules, e)}
    [] c.kind = "iptables" ->
         {[st |-> [k EXCEPT !.chain = r.st], ret |-> r.ret, fault |-> r.fault]
          : r \in IPTablesRuleConfig_Ensure(k.chain, c.IsDefaultChain, e)}

\* Ensure on a Set: the members in declaration order, up to the first
\* that fails; calls lists the member calls made
RECURSIVE Set_Ensure_ContinueAfterError(_, _, _, _, _, _)
Set_Ensure_ContinueAfterError(configs, i, k, e, called, fault) ==
  IF i > Len(configs)
  THEN LET failed == {j \in 1..Len(called) : called[j].res # Nil}
       IN {[st |-> k,
            ret |-> IF failed = {} THEN Nil
                    ELSE called[CHOOSE j \in failed : \A l \in failed : j <= l].res,
            calls |-> called, fault |-> fault]}
  ELSE UNION {Set_Ensure_ContinueAfterError(configs, i + 1, r.st, e,
                Append(called, Call("Ensure", configs[i].kind, r.ret)),
                fault \/ r.fault)
              : r \in Config_Ensure(configs[i], k, e)}
RECURSIVE Set_Ensure(_, _, _, _, _, _)
Set_Ensure(configs, i, k, e, called, fault) ==
  IF i > Len(configs)
  THEN {[st |-> k, ret |-> Nil, calls |-> called, fault |-> fault]}
  ELSE UNION {LET made == Append(called, Call("Ensure", configs[i].kind, r.ret))
              IN IF r.ret # Nil
                 THEN {[st |-> r.st, ret |-> r.ret, calls |-> made,
                        fault |-> fault \/ r.fault]}
                 ELSE Set_Ensure(configs, i + 1, r.st, e, made, fault \/ r.fault)
              : r \in Config_Ensure(configs[i], k, e)}

EnsureSet(faithful) ==
  /\ Running /\ cfg.kind = "set"
  /\ \E e \in BOOLEAN :
       \E r \in Allowed(Set_Ensure(cfg.Configs, 1,
                          [sysctl |-> sysctl, route |-> route,
                           rules |-> rules, chain |-> chain],
                          e, <<>>, FALSE), faithful) :
         /\ sysctl' = r.st.sysctl /\ route' = r.st.route
         /\ rules' = r.st.rules /\ chain' = r.st.chain
         /\ ret' = r.ret /\ calls' = r.calls
         /\ enabled' = Flag(e) /\ repeated' = (enabled = Flag(e))
  /\ UNCHANGED <<cfg, fillVars>>

\* the kernel a Set is applied to
InitSet ==
  /\ cfg \in Sets
  /\ sysctl \in SysctlValues
  /\ route \in BOOLEAN
  /\ rules \in {<<>>, <<Rule>>}
  /\ chain = NoChain
  /\ InitCalls
  /\ InitFillVars
NextSet == EnsureSet(FALSE)
SpecSet == InitSet /\ [][NextSet]_vars

Step(faithful) ==
  \/ EnsureSysctl(faithful)
  \/ EnsureIPRoute(faithful)
  \/ EnsureIPRule(faithful)
  \/ EnsureIPTablesRule(faithful)

\* every environment call may fail
Next == Step(FALSE)
Spec == Init /\ [][Next]_vars

\* no call fails but for what the tables hold
NextFaithful == Step(TRUE)
SpecFaithful == Init /\ [][NextFaithful]_vars

\* the node-info refresh: the builder runs on a node and publishes
FillLocalRulesFromNode ==
  /\ Running
  /\ \E n \in Nodes :
       LET r == fillLocalRulesFromNode(
                  [gw |-> vethGatewayDst, cfgs |-> LocalTableRuleConfigs], n)
       IN /\ node' = n
          /\ fillErr' = r.err
          /\ vethGatewayDst' = r.gw
          /\ LocalTableRuleConfigs' = r.cfgs
          /\ refreshes' = IF r.err = Nil /\ refreshes < MaxRefreshes
                          THEN refreshes + 1 ELSE refreshes
  /\ UNCHANGED <<cfg, kernelVars, callVars>>

InitFill ==
  /\ cfg = Config("rule", FALSE)
  /\ sysctl = DefaultValue /\ route = FALSE /\ rules = <<>> /\ chain = NoChain
  /\ InitCalls
  /\ InitFillVars
NextFill == FillLocalRulesFromNode
SpecFill == InitFill /\ [][NextFill]_vars

\* ---- claims -------------------------------------------------------------
Ops(op) == {i \in 1..Len(calls) : calls[i].op = op}
Done(kind, e) == cfg.kind = kind /\ enabled = e

\* C1: for every N >= 0 kernel rules equal to the configured rule but for
\* priority, whatever their priorities, one IPRuleConfig.Ensure(true) leaves
\* exactly 1 such rule in the kernel table and one Ensure(false) exactly 0.
C1_ConvergenceUnderDuplication ==
  /\ Done("rule", "true") => CountMatching(rules) = 1
  /\ Done("rule", "false") => CountMatching(rules) = 0

\* C2: for each Config variant and from any kernel state, a second
\* Ensure(true) right after an Ensure(true) returns no error and leaves the
\* kernel state as the first left it; the same for Ensure(false) twice.
C2_Idempotence ==
  /\ [](repeated => ret = Nil)
  /\ [][enabled # "none" /\ enabled' = enabled
        => <<sysctl, route, rules, chain>>' = <<sysctl, route, rules, chain>>]_vars

\* C3: IPRouteConfig.Ensure(true) returns nil when RouteAdd succeeds or
\* reports "already exists", Ensure(false) returns nil when RouteDel succeeds
\* or reports ESRCH, and for every other error of RouteAdd or RouteDel, of
\* any error type, Ensure returns normally with exactly that error.
C3_RouteErrorClassification ==
  cfg.kind = "route" /\ enabled # "none" =>
    LET err == calls[1].res
        benign == \/ err = Nil
                  \/ enabled = "true" /\ IsExist(err)
                  \/ enabled = "false" /\ err = Errno("ESRCH")
    IN ret = IF benign THEN Nil ELSE err

\* C4: IPTablesRuleConfig.Ensure(false) on a chain with IsDefaultChain never
\* issues a DeleteChain nor a ClearChain call; on a chain without it, it
\* issues ClearChain, and DeleteChain whenever that ClearChain succeeded.
C4_DefaultChainProtection ==
  Done("iptables", "false") =>
    IF cfg.IsDefaultChain
    THEN Ops("DeleteChain") = {} /\ Ops("ClearChain") = {}
    ELSE /\ calls # <<>> /\ calls[1].op = "ClearChain"
         /\ calls[1].res = Nil => Ops("DeleteChain") # {}

\* C4 witness: a system-default chain was disabled and its rule specs deleted
C4_Witness ==
  /\ Done("iptables", "false") /\ cfg.IsDefaultChain
  /\ Ops("Delete") = 1..Len(RuleSpecs) /\ ret = Nil /\ chain.exists

\* a Delete error that means "rule not found / no chain-target-match"
NotFound(err) == IsIptStatus(err, 2) \/ (err.type = "ipt" /\ err.nochain)

\* C5: Ensure(false) with IsDefaultChain calls Delete on each rule spec in
\* order; a "not found" Delete error is success and the loop goes on; every
\* other Delete error, of the tool or of any other type, stops the loop and
\* is returned by Ensure.
C5_DefaultChainDisable ==
  Done("iptables", "false") /\ cfg.IsDefaultChain =>
    /\ Len(calls) \in 1..Len(RuleSpecs)
    /\ \A i \in 1..Len(calls) :
         /\ calls[i].op = "Delete" /\ calls[i].arg = RuleSpecs[i]
         /\ IF calls[i].res = Nil \/ NotFound(calls[i].res)
            THEN i = Len(calls) => (i = Len(RuleSpecs) /\ ret = Nil)
            ELSE i = Len(calls) /\ ret = calls[i].res

\* the failures of a pass: a call that returned an error, but for a RuleAdd
\* that reported "already exists"
Failures ==
  {i \in 1..Len(calls) :
     /\ calls[i].res # Nil
     /\ ~(calls[i].op = "RuleAdd" /\ IsExist(calls[i].res))}
LastFailure ==
  IF Failures = {} THEN Nil
  ELSE calls[CHOOSE i \in Failures : \A j \in Failures : j <= i].res

\* C6: IPRuleConfig.Ensure returns no error only if its pass had no failure,
\* and else the most recent failure of the pass, even when a later call of
\* the same pass succeeded.
C6_LastErrorReturned ==
  cfg.kind = "rule" /\ enabled # "none" => ret = LastFailure

\* C7: IPTablesRuleConfig.Ensure(true) calls NewChain first and takes its
\* exit status 1 as success, then calls AppendUnique once per rule spec in
\* declared order; at the first other NewChain failure or the first
\* AppendUnique failure it makes no further call and returns that error.
C7_EnableOrdering ==
  Done("iptables", "true") =>
    LET n == Len(calls) IN
    /\ n >= 1 /\ calls[1].op = "NewChain"
    /\ IF calls[1].res # Nil /\ ~IsIptStatus(calls[1].res, 1)
       THEN n = 1 /\ ret = calls[1].res
       ELSE /\ n <= 1 + Len(RuleSpecs)
            /\ \A i \in 2..n :
                 /\ calls[i].op = "AppendUnique"
                 /\ calls[i].arg = RuleSpecs[i - 1]
                 /\ i < n => calls[i].res = Nil
            /\ IF n > 1 /\ calls[n].res # Nil
               THEN ret = calls[n].res
               ELSE n = 1 + Len(RuleSpecs) /\ ret = Nil

\* C7 witness: the chain existed (status 1), the first rule spec was
\* appended and the second AppendUnique failed
C7_Witness ==
  /\ Done("iptables", "true") /\ IsIptStatus(calls[1].res, 1)
  /\ Len(calls) = 3 /\ calls[2].res = Nil
  /\ calls[3].res # Nil /\ ret = calls[3].res

\* C8: Ensure(false) without IsDefaultChain calls ClearChain, then
\* DeleteChain; a failed ClearChain is returned and DeleteChain not called;
\* exit status 1 of DeleteChain is success, any other DeleteChain error is
\* returned; no Delete of a rule spec is issued.
C8_NonDefaultChainDisable ==
  Done("iptables", "false") /\ ~cfg.IsDefaultChain =>
    /\ Len(calls) >= 1 /\ calls[1].op = "ClearChain"
    /\ Ops("Delete") = {}
    /\ IF calls[1].res # Nil
       THEN Len(calls) = 1 /\ ret = calls[1].res
       ELSE /\ Len(calls) = 2 /\ calls[2].op = "DeleteChain"
            /\ ret = IF calls[2].res = Nil \/ IsIptStatus(calls[2].res, 1)
                     THEN Nil ELSE calls[2].res

\* C8 witness: a chain that held rules was cleared and deleted
C8_Witness ==
  /\ Done("iptables", "false") /\ ~cfg.IsDefaultChain
  /\ Len(calls) = 2 /\ calls[1].res = Nil /\ calls[2].res = Nil
  /\ ret = Nil /\ ~chain.exists

\* the state the Config declares is there / is not there
Present ==
  CASE cfg.kind = "route" -> route
    [] cfg.kind = "rule" -> CountMatching(rules) >= 1
    [] cfg.kind = "iptables" ->
         /\ chain.exists
         /\ \A i \in 1..Len(RuleSpecs) :
              \E j \in 1..Len(chain.rules) : chain.rules[j] = RuleSpecs[i]
    [] OTHER -> sysctl = Value
Absent ==
  CASE cfg.kind = "route" -> ~route
    [] cfg.kind = "rule" -> CountMatching(rules) = 0
    [] cfg.kind = "iptables" ->
         IF cfg.IsDefaultChain
         THEN /\ chain.exists
              /\ \A i \in 1..Len(RuleSpecs) :
                   \A j \in 1..Len(chain.rules) : chain.rules[j] # RuleSpecs[i]
         ELSE ~chain.exists
    [] OTHER -> sysctl = DefaultValue

\* C9: with the kernel and the filter engine behaving faithfully, after any
\* sequence of Ensure calls of an IPRouteConfig, IPRuleConfig or
\* IPTablesRuleConfig the declared state is present when the last call was
\* Ensure(true) and absent when it was Ensure(false), and that last call
\* returned no error.
C9_ConvergenceEitherDirection ==
  cfg.kind \in {"route", "rule", "iptables"} =>
    /\ enabled = "true" => Present /\ ret = Nil
    /\ enabled = "false" => Absent /\ ret = Nil

\* C10: SysctlConfig.Ensure makes exactly one call of its sysctl function on
\* Key, with Value when enabled and DefaultValue when not, and returns
\* exactly what that call returned.
C10_SysctlEnsure ==
  cfg.kind = "sysctl" /\ enabled # "none" =>
    /\ Len(calls) = 1 /\ calls[1].op = "Sysctl"
    /\ calls[1].arg = (IF enabled = "true" THEN Value ELSE DefaultValue)
    /\ ret = calls[1].res

\* C10 witness: a disabling call whose sysctl function failed
C10_Witness ==
  /\ Done("sysctl", "false") /\ calls[1].arg = DefaultValue
  /\ ret = OtherError /\ calls[1].res = OtherError

\* ---- claims on the Set ---------------------------------------------------
SetPass == cfg.kind = "set" /\ calls' # <<>>
WrittenValue(e) == IF e = "true" THEN Value ELSE DefaultValue
MemberOf(kind) == {i \in 1..Len(cfg.Configs) : cfg.Configs[i].kind = kind}

\* C15: Ensure on a Set calls its members in declaration order; every
\* member called before the last one returned nil, the last one's result
\* is what the Set returns, and no member after a failed one is called:
\* the kernel state of a member that was not called is as it was. A
\* member that has converged stays converged when a later one fails: the
\* sysctl written by a SysctlConfig member that returned nil is in place.
C15_SetGrouping ==
  [][SetPass =>
       /\ Len(calls') <= Len(cfg.Configs)
       /\ \A i \in 1..Len(calls') :
            /\ calls'[i].op = "Ensure"
            /\ calls'[i].arg = cfg.Configs[i].kind
            /\ i < Len(calls') => calls'[i].res = Nil
       /\ ret' = calls'[Len(calls')].res
       /\ ret' = Nil => Len(calls') = Len(cfg.Configs)
       /\ \A i \in MemberOf("sysctl") : i > Len(calls') => sysctl' = sysctl
       /\ \A i \in MemberOf("route") : i > Len(calls') => route' = route
       /\ \A i \in MemberOf("rule") : i > Len(calls') => rules' = rules
       /\ \A i \in MemberOf("sysctl") :
            i <= Len(calls') /\ calls'[i].res = Nil
              => sysctl' = WrittenValue(enabled')]_vars
C15_Witness ==
  /\ cfg.kind = "set" /\ Len(cfg.Configs) = 3
  /\ enabled = "true"
  /\ Len(calls) = 2 /\ calls[1].res = Nil /\ calls[2].res = Errno("EPERM")
  /\ ret = Errno("EPERM")
  /\ sysctl = Value /\ ~route /\ rules = <<>>

\* ---- claims on the rule-count convergence pass --------------------------
OpsIn(cs, op) == {i \in 1..Len(cs) : cs[i].op = op}
\* rules of tbl that have every field of r.Rule but, maybe, its priority
SameButPriority(tbl) == {i \in 1..Len(tbl) : tbl[i].key = Rule.key}
Target(e) == IF e = "true" THEN 1 ELSE 0
Distance(c, t) == IF c >= t THEN c - t ELSE t - c
\* a step that is an IPRuleConfig.Ensure whose RuleList call succeeded
ListedPass == cfg.kind = "rule" /\ calls'[1].res = Nil

\* C16: for every initial matching count c and target t in {0, 1},
\* ensureHelper terminates after exactly |c - t| RuleDel/RuleAdd calls, even
\* when every one of them fails, and lists the rules once only.
C16_PassTerminates ==
  [][/\ cfg.kind = "rule" =>
          ensureHelper(rules, 0) # {} /\ ensureHelper(rules, 1) # {}
     /\ ListedPass =>
          /\ Cardinality(OpsIn(calls', "RuleDel") \cup OpsIn(calls', "RuleAdd"))
               = Distance(Cardinality(SameButPriority(rules)), Target(enabled'))
          /\ OpsIn(calls', "RuleList") = {1}]_vars

\* C16 witness: a pass of two RuleDel calls that both failed
C16_Witness ==
  /\ Done("rule", "false") /\ Len(calls) = 3
  /\ calls[2].op = "RuleDel" /\ calls[2].res # Nil
  /\ calls[3].op = "RuleDel" /\ calls[3].res # Nil
  /\ Cardinality(SameButPriority(rules)) = 2

\* C17: count returns exactly the number of listed rules that agree with the
\* configured rule on every field but Priority: a rule that differs in
\* Priority only is counted, a rule that differs in another field is not,
\* and the comparison leaves the configured rule's Priority as it is (the
\* rule a later RuleAdd puts in the table carries it).
C17_PriorityBlindCount ==
  cfg.kind = "rule" =>
    /\ \A c \in count(rules) :
         c.err = Nil => c.n = Cardinality(SameButPriority(rules))
    /\ enabled # "none" /\ Len(calls) = 1 /\ calls[1].res = Nil
         => Cardinality(SameButPriority(rules)) = Target(enabled)
    /\ OpsIn(calls, "RuleAdd") # {} /\ calls[Len(calls)].res = Nil
         => rules[Len(rules)] = Rule

\* C17 witness: Ensure(true) found one rule of another priority next to a
\* rule that differs in another field, counted 1 and did nothing
C17_Witness ==
  /\ Done("rule", "true") /\ Len(calls) = 1 /\ calls[1].res = Nil
  /\ \E i, j \in 1..Len(rules) :
       /\ rules[i].key = Rule.key /\ rules[i].prio # Rule.prio
       /\ rules[j].key # Rule.key

\* C18: whenever IPRuleConfig.Ensure(enabled) returns no error, the number
\* of kernel rules equal-without-priority to the configured rule is the
\* target (1 if enabled, 0 if not), whatever RuleAdd and RuleDel did.
\* (Passes in which a call reported "already exists" are left out: with one
\* caller the kernel reports it only of a rule that count has seen.)
C18_NilMeansConverged ==
  /\ cfg.kind = "rule" /\ enabled # "none" /\ ret = Nil
  /\ \A i \in 1..Len(calls) : ~IsExist(calls[i].res)
  => Cardinality(SameButPriority(rules)) = Target(enabled)

\* C19: if RuleList returns an error, Ensure(true) and Ensure(false) return
\* that error and issue no RuleAdd and no RuleDel; the rule table is as it
\* was.
C19_ListFailure ==
  [][cfg.kind = "rule" /\ calls'[1].res # Nil
       => ret' = calls'[1].res /\ Len(calls') = 1 /\ rules' = rules]_vars

\* C19 witness: Ensure(true) on a table without a matching rule, RuleList
\* failed, nothing was added
C19_Witness ==
  /\ Done("rule", "true") /\ calls[1].op = "RuleList"
  /\ calls[1].res = OtherError /\ ret = OtherError
  /\ SameButPriority(rules) = {}

\* C20: when the listed count is the target already, Ensure issues no
\* RuleAdd and no RuleDel and returns nil; Ensure(true) issues RuleAdd only
\* when the count is 0, and once, RuleDel only when the count exceeds 1,
\* never both; Ensure(false) never issues RuleAdd.
C20_OneDirection ==
  [][ListedPass =>
       LET c == Cardinality(SameButPriority(rules))
           adds == OpsIn(calls', "RuleAdd")
           dels == OpsIn(calls', "RuleDel")
       IN /\ c = Target(enabled') => adds = {} /\ dels = {} /\ ret' = Nil
          /\ adds = {} \/ dels = {}
          /\ enabled' = "true" =>
               /\ adds # {} => c = 0 /\ Cardinality(adds) = 1
               /\ dels # {} => c > 1
          /\ enabled' = "false" => adds = {}]_vars

\* C20 witness: Ensure(false) on a table that holds other rules only
C20_Witness ==
  /\ Done("rule", "false") /\ Len(calls) = 1 /\ calls[1].res = Nil
  /\ ret = Nil /\ rules # <<>> /\ SameButPriority(rules) = {}

\* ---- claims on the node-derived local-rule builder ----------------------
Refreshed == node' # NoNode /\ fillErr' = Nil /\ refreshes >= 1
InternalIPs(n) == SelectSeq(n.Addresses, LAMBDA a : a.Type = "InternalIP")
Filled == node # NoNode /\ fillErr = Nil
HasPodCIDR(n) == n.PodCIDR # NoCIDR \/ n.PodCIDRs # <<>>

C12_MissingFieldErrors ==
  node # NoNode =>
    /\ ~HasPodCIDR(node) => fillErr # Nil
    /\ InternalIPs(node) = <<>> => fillErr # Nil
    /\ HasPodCIDR(node) /\ InternalIPs(node) # <<>> => fillErr = Nil
C12_Witness ==
  /\ node.PodCIDR = NoCIDR /\ node.PodCIDRs # <<>>
  /\ Len(node.Addresses) = 2 /\ Len(InternalIPs(node)) = 1
  /\ fillErr = Nil

\* C13: after a successful build LocalTableRuleConfigs has one entry per
\* reported internal IP: for every address, as many entries with that
\* destination as the node reports it as an internal IP, whatever else
\* the node reports and in whatever order.
C13_InternalIPEnumeration ==
  Filled =>
    /\ Len(LocalTableRuleConfigs) = Len(InternalIPs(node))
    /\ \A a \in {e.Address : e \in NodeAddresses} :
         Cardinality({i \in 1..Len(LocalTableRuleConfigs) :
                        LocalTableRuleConfigs[i].Dst = a})
           = Cardinality({j \in 1..Len(node.Addresses) :
                            /\ node.Addresses[j].Type = "InternalIP"
                            /\ node.Addresses[j].Address = a})
C13_Witness ==
  /\ Filled
  /\ node.Addresses = <<[Type |-> "ExternalIP", Address |-> IPv4(10, 128, 0, 24)],
                        [Type |-> "InternalIP", Address |-> IPv4(172, 30, 0, 5)]>>
  /\ LocalTableRuleConfigs = <<[Dst |-> IPv4(172, 30, 0, 5)]>>

\* the gateway of each pod CIDR, by hand
GatewayFor(c) ==
  CASE c = CIDR(IPv4(10, 124, 0, 0), 16) -> IPv4(10, 124, 0, 1)
    [] c = CIDR(IPv4(10, 52, 1, 0), 24) -> IPv4(10, 52, 1, 1)
    [] c = CIDR(IPv4(10, 52, 1, 77), 24) -> IPv4(10, 52, 1, 1)

\* C14: after a successful build vethGatewayDst is the /32 host network
\* of the base address of the node's pod CIDR plus one, the pod CIDR
\* being PodCIDR when it is set and the first entry of PodCIDRs otherwise.
C14_GatewayDerivation ==
  Filled =>
    /\ vethGatewayDst.bits = 32
    /\ vethGatewayDst.ip =
         GatewayFor(IF node.PodCIDR # NoCIDR THEN node.PodCIDR ELSE node.PodCIDRs[1])
C14_Witness ==
  /\ Filled
  /\ node.PodCIDR = CIDR(IPv4(10, 52, 1, 77), 24)
  /\ vethGatewayDst = CIDR(IPv4(10, 52, 1, 1), 32)

====
